---- MODULE Spec2Model ----
(***************************************************************************)
(* A model of the BitTorrent downloader: download_all (src/src/download.rs),*)
(* the Downloaded iterator, and the peer connection (src/src/peer.rs).     *)
(* Byte buffers are sequences of small integers; offsets are 0-based as in *)
(* the Rust code and translated to 1-based sequence positions on access.   *)
(***************************************************************************)
EXTENDS Integers, Sequences, FiniteSets, TLC

\* The block-size ceiling (1 << 14 in the source), scaled down so that byte
\* buffers stay enumerable.  All block arithmetic is written in terms of it.
BLOCK_MAX_SIZE == 2
\* The largest piece length and total length of the torrents explored.
MaxPieceLen == 3
MaxLength == 4
\* The number of connected peers in peer_list.
NumPeers == 2
\* The number of connected peers and the largest total length of the
\* torrents of one-byte pieces explored for the peer pool.
PoolPeers == 3
PoolLength == 2
\* The largest number of peer addresses in the tracker's answer, and the
\* number of connection attempts in flight at once (5 in the source, scaled
\* down so that the limit is met).
MaxAddrs == 3
BufferUnordered == 2
\* The number of files and the largest file length of a Downloaded.
MaxFiles == 3
MaxFileLen == 2
\* The number of requests made on one connection.
MaxRequests == 2
\* The number of pieces and the largest number of candidate peers of a piece
\* in the scheduler's heap.
HeapPieces == 3
MaxCount == 3
\* The frame ceiling of the codec (1 << 16 in the source), scaled down, and
\* the number of frames a remote sends on the stream explored.
MAX == 2
MaxFrames == 3
\* The largest payload of a BitField explored on its own, in bytes.
MaxBitFieldLen == 2
\* The width in bits of the model's u32 (32 in the source), scaled down with
\* the block size so that lengths near the top of the range are explored.
WordBits == 4

VARIABLES
    \* ---- download_all ----
    piece_length,    \* t.info.piece_length
    length,          \* t.length()
    bit_field,       \* peer index -> BitField payload (sequence of bytes)
    honest,          \* the peers whose remote answers every request correctly
    pc,              \* position of download_all
    err,             \* the failure the run ended with: [kind, pieces]
    need_pieces,     \* piece indices still in the heap
    cur,             \* index of the piece popped from the heap (-1: none)
    tasks,           \* the work queue of block indices (kanal channel)
    part,            \* peer index -> state of its participate future
    done,            \* the result channel (tokio mpsc), Piece messages
    all_blocks,      \* the piece-local buffer
    bytes_received,
    all_pieces,      \* the final content buffer
    requests,        \* number of Request messages written to peers
    delivered,       \* block index -> Piece messages sent for it on the result channel
    \* ---- DownloadedIter ----
    files,           \* downloaded.files: the declared length of each file
    bytes,           \* downloaded.bytes
    file_iter,       \* number of files the slice iterator has passed
    offset,          \* DownloadedIter.offset
    yielded,         \* the byte slices of the items yielded so far
    iter_st,         \* "iter", "end" (next returned None), "panicked"
    \* ---- one peer connection ----
    mode,            \* "peer": Peer::new and Peer::download; "cli": DownloadPiece
    info_hash,       \* the locally computed info hash
    hs_reply,        \* the info hash of the handshake the remote answers with
    first_tag,       \* the tag of the first framed message the remote sends
    peer_bf,         \* the payload of that message
    piece_size,      \* "cli": the size of the piece to download
    cpc,             \* position of the connection
    wire,            \* the messages written to and read from the stream, in order
    last,            \* the last call of Peer::download and its result
    \* ---- the scheduler's heap ----
    h_counts,        \* piece index -> number of candidate peers (piece.peers().len())
    h_next,          \* piece_i of the loop that builds the heap
    h_heap,          \* the piece indices in need_pieces
    h_popped,        \* the piece indices popped so far, in order
    \* ---- MessageFramer ----
    k_mode,          \* "stream": a remote sends frames; "trip": encode, then decode
    k_fed,           \* every byte appended to src so far
    k_pending,       \* the rest of the frame the remote is sending
    k_frames,        \* number of frames the remote has started
    k_src,           \* src: the read buffer (BytesMut)
    k_msgs,          \* the messages decode has returned, in order
    k_res,           \* the last result of decode, with src before and after the call
    k_item,          \* "trip": the message given to encode
    k_tail,          \* "trip": the bytes that follow the encoded frame
    k_enc,           \* "trip": the result of encode
    \* ---- one BitField ----
    b_payload,       \* BitField::payload
    b_piece,         \* the argument of the last has_piece call (-1: none)
    b_has,           \* its result
    b_calls,         \* number of pieces() calls made
    b_first,         \* what the first pieces() call yielded
    b_second,        \* what the second pieces() call yielded
    \* ---- the block requests of one piece ----
    g_mode,          \* "lib": download_all and Peer::download; "cli": DownloadPiece
    g_checks,        \* the build has overflow checks (a debug build)
    g_length,        \* the torrent's total length
    g_piece_length,  \* t.info.piece_length
    g_piece,         \* the index of the piece
    g_size,          \* the length of the piece
    g_num,           \* blocks_num
    g_reqs,          \* the (begin, length) of the Requests generated, in order
    g_st,            \* "start", "blocks", "done", "panicked"
    \* ---- building the peer list ----
    a_result,        \* address index -> what Peer::new returns for that address
    a_next,          \* number of addresses the stream has started
    a_flight,        \* the addresses whose Peer::new is in flight
    a_attempts,      \* address index -> number of Peer::new calls made for it
    peer_list,       \* the addresses of the peers pushed, in order
    a_failed,        \* the addresses reported as failed, in order
    a_st             \* "idle", "connecting", "built", "failed"

dvars == <<piece_length, length, bit_field, honest, pc, err, need_pieces, cur,
           tasks, part, done, all_blocks, bytes_received, all_pieces, requests,
           delivered>>

ivars == <<files, bytes, file_iter, offset, yielded, iter_st>>

cvars == <<mode, info_hash, hs_reply, first_tag, peer_bf, piece_size, cpc, wire, last>>

hvars == <<h_counts, h_next, h_heap, h_popped>>

kvars == <<k_mode, k_fed, k_pending, k_frames, k_src, k_msgs, k_res, k_item, k_tail, k_enc>>

bvars == <<b_payload, b_piece, b_has, b_calls, b_first, b_second>>

gvars == <<g_mode, g_checks, g_length, g_piece_length, g_piece, g_size, g_num,
           g_reqs, g_st>>

avars == <<a_result, a_next, a_flight, a_attempts, peer_list, a_failed, a_st>>

vars == <<dvars, ivars, cvars, hvars, kvars, bvars, gvars, avars>>

\* What each part of the model leaves alone.
not_dvars == <<ivars, cvars, hvars, kvars, bvars, gvars, avars>>
not_ivars == <<dvars, cvars, hvars, kvars, bvars, gvars, avars>>
not_cvars == <<dvars, ivars, hvars, kvars, bvars, gvars, avars>>
not_hvars == <<dvars, ivars, cvars, kvars, bvars, gvars, avars>>
not_kvars == <<dvars, ivars, cvars, hvars, bvars, gvars, avars>>
not_bvars == <<dvars, ivars, cvars, hvars, kvars, gvars, avars>>
not_gvars == <<dvars, ivars, cvars, hvars, kvars, bvars, avars>>
not_avars == <<dvars, ivars, cvars, hvars, kvars, bvars, gvars>>

\* The number of values of a u32.
U32 == 2 ^ WordBits

\* The indices of the connected peers: peers = peer_list (download.rs 36).
Peers == DOMAIN bit_field

Zeros(n) == [k \in 1..n |-> 0]

----------------------------------------------------------------------------
(* Torrent metadata *)

\* The byte the torrent's content holds at 0-based offset i.
Content(i) == 1 + (i % 3)

\* SHA-1 of a byte buffer, as a digest folded over the bytes.
RECURSIVE Sha1(_)
Sha1(buf) ==
    IF buf = <<>> THEN 0
    ELSE (Sha1(SubSeq(buf, 1, Len(buf) - 1)) * 7 + buf[Len(buf)] + 1) % 65521

\* t.info.pieces.0.len()
NumPieces == (length + piece_length - 1) \div piece_length

\* The length of piece i of n in a torrent of the given total length: the
\* last piece may be shorter than piece_length.
PieceLenOf(total, plen, i, n) ==
    IF i = n - 1
    THEN LET md == total % plen
         IN  IF md = 0 THEN plen ELSE md
    ELSE plen

\* piece.length()
PieceLen(i) == PieceLenOf(length, piece_length, i, NumPieces)

\* The content of piece i.
PieceContent(i) == [k \in 1..PieceLen(i) |-> Content(i * piece_length + k - 1)]

\* piece.hash(): t.info.pieces.0[i]
PieceHash(i) == Sha1(PieceContent(i))

----------------------------------------------------------------------------
(* BitField *)

\* 1u8.rotate_left(n - 1): the mask of a bit counted from the least
\* significant end.
RotateLeftOne(n) == 2 ^ ((n - 1) % 8)

\* 1u8.rotate_right(n)
RotateRightOne(n) == 2 ^ ((8 - (n % 8)) % 8)

\* BitField::has_piece
has_piece(payload, piece) ==
    LET byte_i == piece \div 8
        bit_i  == piece % 8
    IN  IF byte_i >= Len(payload) THEN FALSE
        ELSE (payload[byte_i + 1] \div RotateRightOne(1 + bit_i)) % 2 = 1

\* The pieces of one byte, highest bit index first.
BytePiecesReversed(byte_i, byte) ==
    LET all == [k \in 1..8 |-> byte_i * 8 + (8 - k)]
    IN  SelectSeq(all, LAMBDA piece_i :
                    (byte \div RotateRightOne(1 + (piece_i - byte_i * 8))) % 2 = 1)

\* BitField::pieces, lines 103-107: the pieces of one byte of the payload,
\* bit_i running over 0..u8::BITS.
BytePieces(byte_i, byte) ==
    LET all == [k \in 1..8 |-> byte_i * 8 + (k - 1)]
    IN  SelectSeq(all, LAMBDA piece_i :
                    (byte \div RotateRightOne(1 + (piece_i - byte_i * 8))) % 2 = 1)

\* payload.iter().enumerate().flat_map(..), from byte_i on
RECURSIVE FlatMapBytes(_, _)
FlatMapBytes(payload, byte_i) ==
    IF byte_i >= Len(payload) THEN <<>>
    ELSE BytePieces(byte_i, payload[byte_i + 1]) \o FlatMapBytes(payload, byte_i + 1)

\* BitField::pieces
pieces(payload) == FlatMapBytes(payload, 0)

\* piece.peers(): indices of the peers whose bit field has the piece.
PiecePeers(i) == {p \in Peers : has_piece(bit_field[p], i)}

----------------------------------------------------------------------------
(* Blocks *)

\* download.rs 54: (piece.length() as u32 + BLOCK_MAX_SIZE - 1) / BLOCK_MAX_SIZE
\* in u32 arithmetic.  overflow: the addition or the subtraction leaves the
\* range of u32 (a panic in a build with overflow checks); n: the value with
\* wrapping arithmetic.
BlocksNumU32(len) ==
    LET a   == len % U32
        sum == a + BLOCK_MAX_SIZE
    IN  [overflow |-> sum >= U32,
         n        |-> (((sum % U32) + U32 - 1) % U32) \div BLOCK_MAX_SIZE]

\* blocks_num of piece i
BlocksNum(i) == BlocksNumU32(PieceLen(i)).n

\* The size requested for block `block` of a piece of length len and num
\* blocks: the last block may be shorter.
BlockSizeOf(len, block, num) ==
    IF block = num - 1
    THEN LET md == len % BLOCK_MAX_SIZE
         IN  IF md = 0 THEN BLOCK_MAX_SIZE ELSE md
    ELSE BLOCK_MAX_SIZE

\* The size requested for a block of piece i.
BlockSize(i, block) == BlockSizeOf(PieceLen(i), block, BlocksNum(i))

\* dst[off..].copy_from_slice(src) panics unless the two slices have the
\* same length (and off is within dst).
CanCopyFromSlice(dst, off, src) == off <= Len(dst) /\ Len(dst) - off = Len(src)

CopyFromSlice(dst, off, src) == SubSeq(dst, 1, off) \o src

----------------------------------------------------------------------------
(* Peer::download and the remote peer's answers *)

\* How a remote peer may misbehave when it answers a Request.
Faults == {"wrong_begin", "wrong_index", "wrong_len", "corrupt", "short",
           "not_piece", "closed"}

\* The bytes of piece i at [begin, begin + n).
GoodBlock(i, begin, n) == [k \in 1..n |-> Content(i * piece_length + begin + k - 1)]

\* The bytes a peer sends when it answers with data that is not the content.
BadBlock(n) == [k \in 1..n |-> 9]

\* The bytes a peer sends in an answer for another begin offset.
MisplacedBlock(n) == [k \in 1..n |-> 8]

GoodReply(i, begin, n) ==
    [tag |-> "Piece", short |-> FALSE, index |-> i, begin |-> begin,
     block |-> GoodBlock(i, begin, n)]

\* The answer of a peer that misbehaves in the way b to Request(i, begin, n).
FaultyReply(b, i, begin, n) ==
    CASE b = "wrong_begin" ->
            [tag |-> "Piece", short |-> FALSE, index |-> i, begin |-> begin + BLOCK_MAX_SIZE,
             block |-> MisplacedBlock(n)]
      [] b = "wrong_index" ->
            [tag |-> "Piece", short |-> FALSE, index |-> i + 1, begin |-> begin,
             block |-> GoodBlock(i + 1, begin, n)]
      [] b = "wrong_len" ->
            [tag |-> "Piece", short |-> FALSE, index |-> i, begin |-> begin,
             block |-> GoodBlock(i, begin, n + 1)]
      [] b = "corrupt" ->
            [tag |-> "Piece", short |-> FALSE, index |-> i, begin |-> begin,
             block |-> BadBlock(n)]
      [] b = "short" ->
            [tag |-> "Piece", short |-> TRUE, index |-> 0, begin |-> 0, block |-> <<>>]
      [] b = "not_piece" ->
            [tag |-> "Choke", short |-> FALSE, index |-> 0, begin |-> 0, block |-> <<>>]
      [] OTHER ->
            [tag |-> "eof", short |-> FALSE, index |-> 0, begin |-> 0, block |-> <<>>]

\* The answers peer p may give to Request(i, begin, n): a peer that is not
\* honest answers correctly or misbehaves in any of the ways above.
Replies(p, i, begin, n) ==
    IF p \in honest THEN {GoodReply(i, begin, n)}
    ELSE {GoodReply(i, begin, n)} \cup {FaultyReply(b, i, begin, n) : b \in Faults}

\* Peer::download without the check of the answer's begin offset.
PeerDownloadNoBegin(payload, piece, block, block_size, reply) ==
    IF ~has_piece(payload, piece)
    THEN [kind |-> "err", why |-> "has_piece", sent |-> FALSE, bytes |-> <<>>]
    ELSE IF reply.tag = "eof"
    THEN [kind |-> "err", why |-> "read", sent |-> TRUE, bytes |-> <<>>]
    ELSE IF reply.tag # "Piece"
    THEN [kind |-> "panic", why |-> "tag", sent |-> TRUE, bytes |-> <<>>]
    ELSE IF reply.short
    THEN [kind |-> "err", why |-> "deserialize", sent |-> TRUE, bytes |-> <<>>]
    ELSE IF Len(reply.block) # block_size
    THEN [kind |-> "err", why |-> "len", sent |-> TRUE, bytes |-> <<>>]
    ELSE [kind |-> "ok", why |-> "none", sent |-> TRUE, bytes |-> reply.block]

\* Peer::download(piece, block, block_size) when the remote answers `reply`
\* ("eof": the stream ends or the frame does not decode; short: the payload
\* is shorter than the 8 bytes of index and begin).
\*   kind: "ok" (Ok(bytes)), "err" (Err), "panic" (assert_eq! on the tag)
\*   sent: whether the Request message was written to the stream
PeerDownload(payload, piece, block, block_size, reply) ==
    IF ~has_piece(payload, piece)
    THEN [kind |-> "err", why |-> "has_piece", sent |-> FALSE, bytes |-> <<>>]
    ELSE IF reply.tag = "eof"
    THEN [kind |-> "err", why |-> "read", sent |-> TRUE, bytes |-> <<>>]
    ELSE IF reply.tag # "Piece"
    THEN [kind |-> "panic", why |-> "tag", sent |-> TRUE, bytes |-> <<>>]
    ELSE IF reply.short
    THEN [kind |-> "err", why |-> "deserialize", sent |-> TRUE, bytes |-> <<>>]
    ELSE IF reply.begin # block * BLOCK_MAX_SIZE
    THEN [kind |-> "err", why |-> "begin", sent |-> TRUE, bytes |-> <<>>]
    ELSE IF Len(reply.block) # block_size
    THEN [kind |-> "err", why |-> "len", sent |-> TRUE, bytes |-> <<>>]
    ELSE [kind |-> "ok", why |-> "none", sent |-> TRUE, bytes |-> reply.block]

----------------------------------------------------------------------------
(* download_all *)

NoErr == [kind |-> "none", pieces |-> {}]

Off == [st |-> "off", block |-> -1, why |-> "none"]

\* The payloads the peers' BitField messages carry.
BitFields == {<<>>, <<128>>, <<64>>, <<255>>}

\* A number for what tells one peer from another: its bit field and whether
\* its remote answers correctly.
PeerKind(p) ==
    2 * (CHOOSE k \in 0..255 : (bit_field[p] = <<>> /\ k = 0) \/ bit_field[p] = <<k>>)
      + (IF p \in honest THEN 1 ELSE 0)

\* download_all before it starts, for a torrent whose piece length is in pls
\* and whose total length is in ls, and a list of n connected peers.  The
\* peers are taken in one order of their kinds: download_all treats every
\* index of peer_list alike.
DStart(pls, ls, n) ==
    /\ piece_length \in pls
    /\ length \in ls
    /\ bit_field \in [0..(n - 1) -> BitFields]
    /\ honest \in SUBSET (0..(n - 1))
    /\ \A p, q \in 0..(n - 1) : p < q => PeerKind(p) <= PeerKind(q)
    /\ pc = "start"
    /\ err = NoErr
    /\ need_pieces = {}
    /\ cur = -1
    /\ tasks = <<>>
    /\ part = [p \in Peers |-> Off]
    /\ done = <<>>
    /\ all_blocks = <<>>
    /\ bytes_received = 0
    /\ all_pieces = <<>>
    /\ requests = 0
    /\ delivered = <<>>

\* download_all before it starts, for a torrent and a list of connected peers.
DInit == DStart(1..MaxPieceLen, 1..MaxLength, NumPeers)

\* download_all before it starts, for a torrent of one-byte pieces and a
\* larger list of connected peers.
PoolInit == DStart({1}, 1..PoolLength, PoolPeers)

\* No download in progress.
DIdle ==
    /\ piece_length = 1
    /\ length = 1
    /\ bit_field = [p \in 0..(NumPeers - 1) |-> <<>>]
    /\ honest = Peers
    /\ pc = "idle"
    /\ err = NoErr
    /\ need_pieces = {}
    /\ cur = -1
    /\ tasks = <<>>
    /\ part = [p \in Peers |-> Off]
    /\ done = <<>>
    /\ all_blocks = <<>>
    /\ bytes_received = 0
    /\ all_pieces = <<>>
    /\ requests = 0
    /\ delivered = <<>>

\* BuildPieces with the pieces that have no candidate peer left out of the
\* heap instead of failing the run.
BuildPiecesSkip ==
    /\ pc = "start"
    /\ LET all      == 0..(NumPieces - 1)
           no_peers == {i \in all : PiecePeers(i) = {}}
       IN  need_pieces' = all \ no_peers
    /\ pc' = "pop"
    /\ all_pieces' = Zeros(length)
    /\ UNCHANGED not_dvars
    /\ UNCHANGED <<piece_length, length, bit_field, honest, err, cur, tasks, part,
                   done, all_blocks, bytes_received, requests, delivered>>

\* Lines 38-52: one Piece per piece index, the assertion that every piece has
\* a candidate peer, and the allocation of the final buffer.
BuildPieces ==
    /\ pc = "start"
    /\ LET all      == 0..(NumPieces - 1)
           no_peers == {i \in all : PiecePeers(i) = {}}
       IN  /\ need_pieces' = all \ no_peers
           /\ IF no_peers # {}
              THEN /\ pc' = "panicked"
                   /\ err' = [kind |-> "no_peers", pieces |-> no_peers]
                   /\ UNCHANGED all_pieces
              ELSE /\ pc' = "pop"
                   /\ all_pieces' = Zeros(length)
                   /\ UNCHANGED err
    /\ UNCHANGED not_dvars
    /\ UNCHANGED <<piece_length, length, bit_field, honest, cur, tasks, part,
                   done, all_blocks, bytes_received, requests, delivered>>

\* Ord for Piece: piece i is greater than piece j when it has fewer
\* candidate peers, or as many and a lower index (cnt: piece -> number of
\* candidate peers).
PieceGreater(i, j, cnt) ==
    \/ cnt[i] < cnt[j]
    \/ cnt[i] = cnt[j] /\ i < j

\* BinaryHeap::pop with the least piece taken for the greatest.
BinaryHeapPopLeast(S, cnt) ==
    CHOOSE i \in S : \A j \in S \ {i} : PieceGreater(j, i, cnt)

\* BinaryHeap::pop (download.rs 53): a max-heap, it returns the greatest
\* piece of the heap.
BinaryHeapPop(S, cnt) ==
    CHOOSE i \in S : \A j \in S \ {i} : PieceGreater(i, j, cnt)

\* need_pieces.pop() in download_all: the piece with the fewest candidate
\* peers, the lowest index among equals.
HeapTop(S) == BinaryHeapPop(S, [i \in S |-> Cardinality(PiecePeers(i))])

\* PopPiece with every block index sent to the work queue twice.
PopPieceTwice ==
    /\ pc = "pop"
    /\ need_pieces # {}
    /\ LET i == HeapTop(need_pieces)
       IN  /\ cur' = i
           /\ need_pieces' = need_pieces \ {i}
           /\ tasks' = [k \in 1..(2 * BlocksNum(i)) |-> (k - 1) % BlocksNum(i)]
           /\ part' = [p \in Peers |->
                         IF p \in PiecePeers(i)
                         THEN [st |-> "run", block |-> -1, why |-> "none"]
                         ELSE Off]
           /\ all_blocks' = Zeros(PieceLen(i))
           /\ delivered' = [b \in 0..(BlocksNum(i) - 1) |-> 0]
    /\ done' = <<>>
    /\ bytes_received' = 0
    /\ pc' = "collect"
    /\ UNCHANGED not_dvars
    /\ UNCHANGED <<piece_length, length, bit_field, honest, err, all_pieces, requests>>

\* Lines 53-83: pop a piece, fill the work queue, launch one participate
\* future per candidate peer, allocate the piece buffer.
PopPiece ==
    /\ pc = "pop"
    /\ need_pieces # {}
    /\ LET i == HeapTop(need_pieces)
       IN  /\ cur' = i
           /\ need_pieces' = need_pieces \ {i}
           /\ tasks' = [k \in 1..BlocksNum(i) |-> k - 1]
           /\ part' = [p \in Peers |->
                         IF p \in PiecePeers(i)
                         THEN [st |-> "run", block |-> -1, why |-> "none"]
                         ELSE Off]
           /\ all_blocks' = Zeros(PieceLen(i))
           /\ delivered' = [b \in 0..(BlocksNum(i) - 1) |-> 0]
    /\ done' = <<>>
    /\ bytes_received' = 0
    /\ pc' = "collect"
    /\ UNCHANGED not_dvars
    /\ UNCHANGED <<piece_length, length, bit_field, honest, err, all_pieces, requests>>

\* Lines 53, 122-131: the heap is empty, the run returns Ok(Downloaded).
ReturnDownloaded ==
    /\ pc = "pop"
    /\ need_pieces = {}
    /\ pc' = "done"
    /\ UNCHANGED not_dvars
    /\ UNCHANGED <<piece_length, length, bit_field, honest, err, need_pieces, cur,
                   tasks, part, done, all_blocks, bytes_received, all_pieces,
                   requests, delivered>>

\* participate: take the next block index from the work queue, or return
\* Ok(()) when the queue is exhausted.
ParticipatePull(p) ==
    /\ pc = "collect"
    /\ part[p].st = "run"
    /\ IF tasks = <<>>
       THEN /\ part' = [part EXCEPT ![p] = [st |-> "ok", block |-> -1, why |-> "none"]]
            /\ UNCHANGED tasks
       ELSE /\ part' = [part EXCEPT ![p] = [st |-> "claimed", block |-> Head(tasks),
                                            why |-> "none"]]
            /\ tasks' = Tail(tasks)
    /\ UNCHANGED not_dvars
    /\ UNCHANGED <<piece_length, length, bit_field, honest, pc, err, need_pieces,
                   cur, done, all_blocks, bytes_received, all_pieces, requests,
                   delivered>>

\* participate: request the claimed block with Peer::download; on success
\* push the Piece message to the result channel, on an error give the block
\* index back to the work queue and end with the error.
ParticipateRequest(p) ==
    /\ pc = "collect"
    /\ part[p].st = "claimed"
    /\ LET block == part[p].block
           size  == BlockSize(cur, block)
       IN  \E reply \in Replies(p, cur, block * BLOCK_MAX_SIZE, size) :
             LET res == PeerDownload(bit_field[p], cur, block, size, reply)
             IN  /\ requests' = requests + (IF res.sent THEN 1 ELSE 0)
                 /\ CASE res.kind = "ok" ->
                           /\ Len(done) < BlocksNum(cur)
                           /\ done' = Append(done, [index |-> cur,
                                                    begin |-> block * BLOCK_MAX_SIZE,
                                                    block |-> res.bytes])
                           /\ part' = [part EXCEPT ![p] =
                                         [st |-> "run", block |-> -1, why |-> "none"]]
                           /\ delivered' = [delivered EXCEPT ![block] = @ + 1]
                           /\ UNCHANGED <<tasks, pc, err>>
                      [] res.kind = "err" ->
                           /\ tasks' = Append(tasks, block)
                           /\ part' = [part EXCEPT ![p] =
                                         [st |-> "err", block |-> block, why |-> res.why]]
                           /\ UNCHANGED <<done, pc, err, delivered>>
                      [] OTHER ->
                           /\ pc' = "panicked"
                           /\ err' = [kind |-> "not_piece", pieces |-> {}]
                           /\ UNCHANGED <<tasks, part, done, delivered>>
    /\ UNCHANGED not_dvars
    /\ UNCHANGED <<piece_length, length, bit_field, honest, need_pieces, cur,
                   all_blocks, bytes_received, all_pieces>>

\* Peer::download inside participate: the Request is written and the remote
\* never answers; self.stream.next() stays pending, there being no timeout.
AwaitSilent(p) ==
    /\ pc = "collect"
    /\ part[p].st = "claimed"
    /\ p \notin honest
    /\ has_piece(bit_field[p], cur)
    /\ part' = [part EXCEPT ![p] = [st |-> "waiting", block |-> part[p].block,
                                    why |-> "none"]]
    /\ requests' = requests + 1
    /\ UNCHANGED not_dvars
    /\ UNCHANGED <<piece_length, length, bit_field, honest, pc, err, need_pieces,
                   cur, tasks, done, all_blocks, bytes_received, all_pieces,
                   delivered>>

\* CollectRecv with a whole block counted for every message received.
CollectRecvFullBlock ==
    /\ pc = "collect"
    /\ done # <<>>
    /\ LET piece == Head(done)
       IN  IF CanCopyFromSlice(all_blocks, piece.begin, piece.block)
           THEN /\ all_blocks' = CopyFromSlice(all_blocks, piece.begin, piece.block)
                /\ bytes_received' = bytes_received + BLOCK_MAX_SIZE
                /\ done' = Tail(done)
                /\ UNCHANGED <<pc, err>>
           ELSE /\ pc' = "panicked"
                /\ err' = [kind |-> "copy_block", pieces |-> {}]
                /\ done' = Tail(done)
                /\ UNCHANGED <<all_blocks, bytes_received>>
    /\ UNCHANGED not_dvars
    /\ UNCHANGED <<piece_length, length, bit_field, honest, need_pieces, cur,
                   tasks, part, all_pieces, requests, delivered>>

\* Lines 93-98: a Piece message arrives on the result channel and its block
\* is copied into the piece buffer.
CollectRecv ==
    /\ pc = "collect"
    /\ done # <<>>
    /\ LET piece == Head(done)
       IN  IF CanCopyFromSlice(all_blocks, piece.begin, piece.block)
           THEN /\ all_blocks' = CopyFromSlice(all_blocks, piece.begin, piece.block)
                /\ bytes_received' = bytes_received + Len(piece.block)
                /\ done' = Tail(done)
                /\ UNCHANGED <<pc, err>>
           ELSE /\ pc' = "panicked"
                /\ err' = [kind |-> "copy_block", pieces |-> {}]
                /\ done' = Tail(done)
                /\ UNCHANGED <<all_blocks, bytes_received>>
    /\ UNCHANGED not_dvars
    /\ UNCHANGED <<piece_length, length, bit_field, honest, need_pieces, cur,
                   tasks, part, all_pieces, requests, delivered>>

\* Every participate future has finished, so every sender of the result
\* channel is dropped.  (A future finishes inside the poll of
\* participates.next(), lines 86-92, which only logs its result.)
AllFinished == \A p \in Peers : part[p].st \in {"off", "ok", "err"}

\* FinishPiece without the comparison of the piece's digest.
FinishPieceNoHash ==
    /\ pc = "collect"
    /\ done = <<>>
    /\ AllFinished
    /\ IF bytes_received # PieceLen(cur)
       THEN /\ pc' = "failed"
            /\ err' = [kind |-> "missing", pieces |-> {cur}]
            /\ UNCHANGED all_pieces
       ELSE IF ~CanCopyFromSlice(all_pieces, cur * piece_length, all_blocks)
       THEN /\ pc' = "panicked"
            /\ err' = [kind |-> "copy_piece", pieces |-> {}]
            /\ UNCHANGED all_pieces
       ELSE /\ pc' = "pop"
            /\ all_pieces' = CopyFromSlice(all_pieces, cur * piece_length, all_blocks)
            /\ UNCHANGED err
    /\ UNCHANGED not_dvars
    /\ UNCHANGED <<piece_length, length, bit_field, honest, need_pieces, cur,
                   tasks, part, done, all_blocks, bytes_received, requests,
                   delivered>>

\* FinishPiece taken as soon as the byte count is complete, without waiting
\* for the result channel to be closed.
FinishPieceEarly ==
    /\ pc = "collect"
    /\ bytes_received = PieceLen(cur)
    /\ IF Sha1(all_blocks) # PieceHash(cur)
       THEN /\ pc' = "panicked"
            /\ err' = [kind |-> "hash", pieces |-> {}]
            /\ UNCHANGED all_pieces
       ELSE IF ~CanCopyFromSlice(all_pieces, cur * piece_length, all_blocks)
       THEN /\ pc' = "panicked"
            /\ err' = [kind |-> "copy_piece", pieces |-> {}]
            /\ UNCHANGED all_pieces
       ELSE /\ pc' = "pop"
            /\ all_pieces' = CopyFromSlice(all_pieces, cur * piece_length, all_blocks)
            /\ UNCHANGED err
    /\ UNCHANGED not_dvars
    /\ UNCHANGED <<piece_length, length, bit_field, honest, need_pieces, cur,
                   tasks, part, done, all_blocks, bytes_received, requests,
                   delivered>>

\* Lines 99-119: the result channel is closed and empty; the byte count is
\* checked, the piece is hashed and compared, and the piece buffer is
\* copied into the final buffer.
FinishPiece ==
    /\ pc = "collect"
    /\ done = <<>>
    /\ AllFinished
    /\ IF bytes_received # PieceLen(cur)
       THEN /\ pc' = "failed"
            /\ err' = [kind |-> "missing", pieces |-> {cur}]
            /\ UNCHANGED all_pieces
       ELSE IF Sha1(all_blocks) # PieceHash(cur)
       THEN /\ pc' = "panicked"
            /\ err' = [kind |-> "hash", pieces |-> {}]
            /\ UNCHANGED all_pieces
       ELSE IF ~CanCopyFromSlice(all_pieces, cur * piece_length, all_blocks)
       THEN /\ pc' = "panicked"
            /\ err' = [kind |-> "copy_piece", pieces |-> {}]
            /\ UNCHANGED all_pieces
       ELSE /\ pc' = "pop"
            /\ all_pieces' = CopyFromSlice(all_pieces, cur * piece_length, all_blocks)
            /\ UNCHANGED err
    /\ UNCHANGED not_dvars
    /\ UNCHANGED <<piece_length, length, bit_field, honest, need_pieces, cur,
                   tasks, part, done, all_blocks, bytes_received, requests,
                   delivered>>

----------------------------------------------------------------------------
(* Downloaded and DownloadedIter *)

RECURSIVE Sum(_)
Sum(lens) == IF lens = <<>> THEN 0 ELSE lens[1] + Sum(Tail(lens))

FileLists == UNION {[1..n -> 0..MaxFileLen] : n \in 1..MaxFiles}

\* DownloadedIter::new on a Downloaded whose buffer holds a distinct byte at
\* every offset and whose file lengths add up to the buffer's length.
IInit ==
    /\ files \in FileLists
    /\ bytes = [k \in 1..Sum(files) |-> k]
    /\ file_iter = 0
    /\ offset = 0
    /\ yielded = <<>>
    /\ iter_st = "iter"

IIdle ==
    /\ files = <<>>
    /\ bytes = <<>>
    /\ file_iter = 0
    /\ offset = 0
    /\ yielded = <<>>
    /\ iter_st = "idle"

\* DownloadedIter::next when the file iterator has a next file:
\* &self.downloaded.bytes[self.offset..][..file.length]
IterNext ==
    /\ iter_st = "iter"
    /\ file_iter < Len(files)
    /\ LET file_length == files[file_iter + 1]
       IN  IF offset <= Len(bytes) /\ file_length <= Len(bytes) - offset
           THEN /\ yielded' = Append(yielded, SubSeq(bytes, offset + 1, offset + file_length))
                /\ UNCHANGED iter_st
           ELSE /\ iter_st' = "panicked"
                /\ UNCHANGED yielded
    /\ file_iter' = file_iter + 1
    /\ UNCHANGED <<files, bytes, offset>>
    /\ UNCHANGED not_ivars

\* DownloadedIter::next when the file iterator is exhausted: None.
IterEnd ==
    /\ iter_st = "iter"
    /\ file_iter = Len(files)
    /\ iter_st' = "end"
    /\ UNCHANGED <<files, bytes, file_iter, offset, yielded>>
    /\ UNCHANGED not_ivars

----------------------------------------------------------------------------
(* One peer connection: Peer::new, Peer::download, and the DownloadPiece   *)
(* command of main, which drives the same exchange by hand.                *)

NoCall == [kind |-> "none", piece |-> 0, block |-> 0, size |-> 0,
           index |-> 0, begin |-> 0, len |-> 0, bytes |-> <<>>]

\* A message on the stream: dir is "out" (written) or "in" (read); hash is
\* the info hash a handshake carries (0 for the framed messages).
Msg(dir, tag, hash) == [dir |-> dir, tag |-> tag, hash |-> hash]

\* What the remote sends first after its handshake: a message of some tag,
\* bytes the codec rejects ("invalid"), or nothing before it closes ("eof").
FirstMessages == {"BitField", "UnChoke", "Have", "invalid", "eof"}

CInit ==
    /\ mode \in {"peer", "cli"}
    /\ info_hash = 1
    /\ hs_reply \in {1, 2}
    /\ first_tag \in FirstMessages
    /\ peer_bf \in BitFields
    /\ piece_size \in 1..(2 * BLOCK_MAX_SIZE)
    /\ cpc = "connect"
    /\ wire = <<>>
    /\ last = NoCall

CIdle ==
    /\ mode = "peer"
    /\ info_hash = 1
    /\ hs_reply = 1
    /\ first_tag = "BitField"
    /\ peer_bf = <<>>
    /\ piece_size = 1
    /\ cpc = "idle"
    /\ wire = <<>>
    /\ last = NoCall

\* TcpStream::connect (peer.rs 24-26, main.rs 248-250).
Connect ==
    /\ cpc = "connect"
    /\ cpc' \in {"connected", "error"}
    /\ UNCHANGED <<mode, info_hash, hs_reply, first_tag, peer_bf, piece_size, wire, last>>
    /\ UNCHANGED not_cvars

\* peer.write_all(handshake_bytes) (peer.rs 28-34, main.rs 252-258).
WriteHandshake ==
    /\ cpc = "connected"
    /\ wire' = Append(wire, Msg("out", "Handshake", info_hash))
    /\ cpc' = "hs_written"
    /\ UNCHANGED <<mode, info_hash, hs_reply, first_tag, peer_bf, piece_size, last>>
    /\ UNCHANGED not_cvars

\* peer.read_exact(handshake_bytes) (peer.rs 36-38, main.rs 260-262): the
\* reply overwrites the handshake buffer; nothing in it is compared.
ReadHandshake ==
    /\ cpc = "hs_written"
    /\ wire' = Append(wire, Msg("in", "Handshake", hs_reply))
    /\ cpc' = "hs_read"
    /\ UNCHANGED <<mode, info_hash, hs_reply, first_tag, peer_bf, piece_size, last>>
    /\ UNCHANGED not_cvars

\* The first framed message accepted whatever its tag.
ReadBitFieldAnyTag ==
    /\ cpc = "hs_read"
    /\ IF first_tag \in {"eof", "invalid"}
       THEN /\ cpc' = "error"
            /\ UNCHANGED wire
       ELSE /\ wire' = Append(wire, Msg("in", first_tag, 0))
            /\ cpc' = IF mode = "peer" THEN "ready" ELSE "bitfield"
    /\ UNCHANGED <<mode, info_hash, hs_reply, first_tag, peer_bf, piece_size, last>>
    /\ UNCHANGED not_cvars

\* The first framed message (peer.rs 41-52, main.rs 265-271).  The end of
\* the stream and a decoding error are errors; Peer::new returns an error
\* unless the message is a BitField; main asserts that it is.
ReadBitField ==
    /\ cpc = "hs_read"
    /\ IF first_tag \in {"eof", "invalid"}
       THEN /\ cpc' = "error"
            /\ UNCHANGED wire
       ELSE /\ wire' = Append(wire, Msg("in", first_tag, 0))
            /\ cpc' = IF first_tag = "BitField"
                      THEN (IF mode = "peer" THEN "ready" ELSE "bitfield")
                      ELSE (IF mode = "peer" THEN "error" ELSE "panicked")
    /\ UNCHANGED <<mode, info_hash, hs_reply, first_tag, peer_bf, piece_size, last>>
    /\ UNCHANGED not_cvars

\* The number of Request messages written so far.
RequestsOn(w) == Cardinality({k \in 1..Len(w) : w[k].dir = "out" /\ w[k].tag = "Request"})

\* What the remote may answer to a request on this connection.
ConnReplies ==
    {[tag |-> "Piece", short |-> FALSE, index |-> i, begin |-> b,
      block |-> [k \in 1..n |-> 7]] :
        i \in 0..1, b \in {0, BLOCK_MAX_SIZE}, n \in 1..BLOCK_MAX_SIZE}
    \cup {[tag |-> t, short |-> FALSE, index |-> 0, begin |-> 0, block |-> <<>>] :
              t \in {"Choke", "eof"}}
    \cup {[tag |-> "Piece", short |-> TRUE, index |-> 0, begin |-> 0, block |-> <<>>]}

\* The messages a request and its answer add to the stream.
Exchange(w, sent, reply) ==
    IF ~sent THEN w
    ELSE IF reply.tag = "eof" THEN Append(w, Msg("out", "Request", 0))
    ELSE w \o <<Msg("out", "Request", 0), Msg("in", reply.tag, 0)>>

\* A call of Peer::download(piece, block, block_size) on the Peer that
\* Peer::new returned.
DownloadCall ==
    /\ mode = "peer"
    /\ cpc = "ready"
    /\ RequestsOn(wire) < MaxRequests
    /\ \E piece \in 0..1, block \in 0..1, size \in 1..BLOCK_MAX_SIZE, reply \in ConnReplies :
         LET res == PeerDownload(peer_bf, piece, block, size, reply)
         IN  /\ wire' = Exchange(wire, res.sent, reply)
             /\ last' = [kind |-> res.kind, piece |-> piece, block |-> block,
                         size |-> size, index |-> reply.index, begin |-> reply.begin,
                         len |-> Len(reply.block), bytes |-> res.bytes]
             /\ cpc' = IF res.kind = "panic" THEN "panicked" ELSE "ready"
    /\ UNCHANGED <<mode, info_hash, hs_reply, first_tag, peer_bf, piece_size>>
    /\ UNCHANGED not_cvars

\* main.rs 273-278: the DownloadPiece command sends Interested.
CliInterested ==
    /\ mode = "cli"
    /\ cpc = "bitfield"
    /\ wire' = Append(wire, Msg("out", "Interested", 0))
    /\ cpc' = "interested"
    /\ UNCHANGED <<mode, info_hash, hs_reply, first_tag, peer_bf, piece_size, last>>
    /\ UNCHANGED not_cvars

\* main.rs 280-285: the next message is asserted to be an UnChoke.
CliUnChoke ==
    /\ mode = "cli"
    /\ cpc = "interested"
    /\ \E tag \in {"UnChoke", "Choke", "eof"} :
         IF tag = "eof"
         THEN /\ cpc' = "error"
              /\ UNCHANGED wire
         ELSE /\ wire' = Append(wire, Msg("in", tag, 0))
              /\ cpc' = IF tag = "UnChoke" THEN "unchoked" ELSE "panicked"
    /\ UNCHANGED <<mode, info_hash, hs_reply, first_tag, peer_bf, piece_size, last>>
    /\ UNCHANGED not_cvars

\* main.rs 288-293: piece_size of piece `piece` of n.
CliPieceSize(total, plen, piece, n) ==
    IF piece = n - 1
    THEN LET md == total % plen
         IN  IF md = 0 THEN plen ELSE md
    ELSE plen

\* main.rs 295: blocks_num, in usize arithmetic.
CliBlocksNumOf(size) == (size + BLOCK_MAX_SIZE - 1) \div BLOCK_MAX_SIZE

\* main.rs 298-303: block_size
CliBlockSizeOf(size, block) ==
    IF block = CliBlocksNumOf(size) - 1
    THEN LET md == size % BLOCK_MAX_SIZE
         IN  IF md = 0 THEN BLOCK_MAX_SIZE ELSE md
    ELSE BLOCK_MAX_SIZE

\* blocks_num of the piece the command downloads.
CliBlocksNum == CliBlocksNumOf(piece_size)

\* block_size of a block of that piece.
CliBlockSize(block) == CliBlockSizeOf(piece_size, block)

\* main.rs 297-326: one turn of the block loop: the Request for the next
\* block and the assertions on the answer; after the last block the piece
\* is complete.
CliRequest ==
    /\ mode = "cli"
    /\ cpc = "unchoked"
    /\ LET block == RequestsOn(wire)
           size  == CliBlockSize(block)
       IN  \E reply \in ConnReplies :
             /\ wire' = Exchange(wire, TRUE, reply)
             /\ cpc' = IF reply.tag = "eof" THEN "error"
                       ELSE IF reply.tag = "Piece" /\ reply.short THEN "error"
                       ELSE IF \/ reply.tag # "Piece"
                               \/ reply.begin # block * BLOCK_MAX_SIZE
                               \/ Len(reply.block) # size
                       THEN "panicked"
                       ELSE IF block + 1 = CliBlocksNum THEN "cli_done"
                       ELSE "unchoked"
    /\ UNCHANGED <<mode, info_hash, hs_reply, first_tag, peer_bf, piece_size, last>>
    /\ UNCHANGED not_cvars

----------------------------------------------------------------------------
(* The scheduler's heap on its own: download.rs 38-53 for pieces that all  *)
(* have candidate peers, with any number of candidates per piece.          *)

HInit ==
    /\ \E n \in 1..HeapPieces : h_counts \in [0..(n - 1) -> 1..MaxCount]
    /\ h_next = 0
    /\ h_heap = {}
    /\ h_popped = <<>>

HIdle ==
    /\ h_counts = [i \in {0} |-> 1]
    /\ h_next = -1
    /\ h_heap = {}
    /\ h_popped = <<>>

\* Lines 41-48: one turn of the loop over the pieces: need_pieces.push(piece).
HeapPush ==
    /\ h_next >= 0
    /\ h_next \in DOMAIN h_counts
    /\ h_heap' = h_heap \cup {h_next}
    /\ h_next' = h_next + 1
    /\ UNCHANGED <<h_counts, h_popped>>
    /\ UNCHANGED not_hvars

\* Line 53: while let Some(piece) = need_pieces.pop(), once the heap is built.
HeapPop ==
    /\ h_next >= 0
    /\ h_next \notin DOMAIN h_counts
    /\ h_heap # {}
    /\ LET i == BinaryHeapPop(h_heap, h_counts)
       IN  /\ h_heap' = h_heap \ {i}
           /\ h_popped' = Append(h_popped, i)
    /\ UNCHANGED <<h_counts, h_next>>
    /\ UNCHANGED not_hvars

----------------------------------------------------------------------------
(* MessageFramer: the wire codec (peer.rs 231-352).                        *)

\* u32::to_be_bytes
ToBeBytes(n) ==
    <<(n \div 16777216) % 256, (n \div 65536) % 256, (n \div 256) % 256, n % 256>>

\* u32::from_be_bytes
FromBeBytes(b) == b[1] * 16777216 + b[2] * 65536 + b[3] * 256 + b[4]

\* enum MessageTag, #[repr(u8)]: item.tag as u8
MessageTag ==
    [Choke |-> 0, UnChoke |-> 1, Interested |-> 2, NotInterested |-> 3, Have |-> 4,
     BitField |-> 5, Request |-> 6, Piece |-> 7, Cancel |-> 8]

\* The match on src[4] with one more arm, for the byte 9.
TagOfByteLenient(b) ==
    CASE b = 0 -> "Choke"
      [] b = 1 -> "UnChoke"
      [] b = 2 -> "Interested"
      [] b = 3 -> "NotInterested"
      [] b = 4 -> "Have"
      [] b = 5 -> "BitField"
      [] b = 6 -> "Request"
      [] b = 7 -> "Piece"
      [] OTHER -> "Cancel"

\* decode, lines 298-314: the match on src[4].
TagOfByte(b) ==
    CASE b = 0 -> "Choke"
      [] b = 1 -> "UnChoke"
      [] b = 2 -> "Interested"
      [] b = 3 -> "NotInterested"
      [] b = 4 -> "Have"
      [] b = 5 -> "BitField"
      [] b = 6 -> "Request"
      [] b = 7 -> "Piece"
      [] b = 8 -> "Cancel"
      [] OTHER -> "unknown"

\* The length check with the ceiling off by one.
FrameTooLargeByOne(n) == n > MAX + 1

\* decode, line 277: length > MAX
FrameTooLarge(n) == n > MAX

\* The payload taken to the end of the buffer.
FramePayloadToEnd(src, n) ==
    IF Len(src) > 5 THEN SubSeq(src, 6, Len(src)) ELSE <<>>

\* decode, lines 315-319: data = src[5..4 + length], or empty
FramePayload(src, n) ==
    IF Len(src) > 5 THEN SubSeq(src, 6, 4 + n) ELSE <<>>

\* A result of decode: Ok(None), Ok(Some(Message)) or Err, and what is left
\* in src.
Decoded(kind, tag, payload, rest) ==
    [kind |-> kind, tag |-> tag, payload |-> payload, rest |-> rest]

\* Ok(None) with the buffer emptied.
NeedMoreClear(src) == Decoded("none", "none", <<>>, <<>>)

\* decode, lines 262 and 293: Ok(None); src keeps its bytes.
NeedMore(src) == Decoded("none", "none", <<>>, src)

\* src.advance(n)
Advance(src, n) == SubSeq(src, n + 1, Len(src))

\* A keep-alive consumed, and Ok(None) returned without looking further.
KeepAliveOnce(src) == NeedMore(Advance(src, 4))

RECURSIVE decode(_)

\* decode, lines 270-273: src.advance(4); return self.decode(src)
KeepAlive(src) == decode(Advance(src, 4))

\* MessageFramer::decode (peer.rs 259-323)
decode(src) ==
    IF Len(src) < 4 THEN NeedMore(src)
    ELSE LET n == FromBeBytes(SubSeq(src, 1, 4))
         IN  IF n = 0 THEN KeepAlive(src)
             ELSE IF FrameTooLarge(n) THEN Decoded("err", "too_large", <<>>, src)
             ELSE IF Len(src) < 4 + n THEN NeedMore(src)
             ELSE IF TagOfByte(src[5]) = "unknown"
                  THEN Decoded("err", "unknown_tag", <<>>, src)
             ELSE Decoded("some", TagOfByte(src[5]), FramePayload(src, n),
                          Advance(src, 4 + n))

\* A result of encode: Ok or Err, and the write buffer.
Encoded(kind, dst) == [kind |-> kind, dst |-> dst]

\* MessageFramer::encode (peer.rs 329-351)
encode(item, dst) ==
    IF Len(item.payload) + 1 > MAX THEN Encoded("err", dst)
    ELSE Encoded("ok", dst \o ToBeBytes(Len(item.payload) + 1)
                           \o <<MessageTag[item.tag]>> \o item.payload)

\* struct Message
Message(tag, payload) == [tag |-> tag, payload |-> payload]

\* The byte sequences of length 0..n over a set of bytes.
BytesUpTo(n, alphabet) == UNION {[1..m -> alphabet] : m \in 0..n}

\* A frame as a remote writes it: length prefix, tag byte, payload.
Frame(tag_byte, payload) == ToBeBytes(Len(payload) + 1) \o <<tag_byte>> \o payload

\* The frames a remote sends: keep-alives, frames within the ceiling with a
\* known tag, a frame with an unknown tag, and declared lengths over the
\* ceiling (by one, and in a higher byte of the prefix).
StreamFrames ==
    {ToBeBytes(0)}
      \cup {Frame(0, pl) : pl \in BytesUpTo(MAX - 1, {0})}
      \cup {Frame(9, <<>>), ToBeBytes(MAX + 1), ToBeBytes(256)}

\* The messages given to encode: every tag, payloads up to one byte more
\* than the ceiling leaves room for.
TripItems ==
    {Message(t, pl) : t \in DOMAIN MessageTag, pl \in BytesUpTo(MAX, {0, 7})}

\* What follows the encoded frame in the buffer.
TripTails == {<<>>, <<0>>, ToBeBytes(0), Frame(7, <<>>)}

NoDecoded ==
    [kind |-> "init", tag |-> "none", payload |-> <<>>, before |-> <<>>, after |-> <<>>]

NoItem == Message("Choke", <<>>)

KInit ==
    /\ k_mode \in {"stream", "trip"}
    /\ k_fed = <<>>
    /\ k_pending = <<>>
    /\ k_frames = 0
    /\ k_src = <<>>
    /\ k_msgs = <<>>
    /\ k_res = NoDecoded
    /\ k_item = NoItem
    /\ k_tail = <<>>
    /\ k_enc = Encoded("none", <<>>)

KIdle ==
    /\ k_mode = "idle"
    /\ k_fed = <<>>
    /\ k_pending = <<>>
    /\ k_frames = 0
    /\ k_src = <<>>
    /\ k_msgs = <<>>
    /\ k_res = NoDecoded
    /\ k_item = NoItem
    /\ k_tail = <<>>
    /\ k_enc = Encoded("none", <<>>)

\* One more byte from the remote arrives in src: the next byte of the frame
\* it is sending, or the first byte of a new frame.  Framed reads no more
\* once decode has returned an error.
Feed ==
    /\ k_mode = "stream"
    /\ k_res.kind # "err"
    /\ \/ /\ k_pending # <<>>
          /\ k_src' = Append(k_src, Head(k_pending))
          /\ k_fed' = Append(k_fed, Head(k_pending))
          /\ k_pending' = Tail(k_pending)
          /\ UNCHANGED k_frames
       \/ /\ k_pending = <<>>
          /\ k_frames < MaxFrames
          /\ \E f \in StreamFrames :
                /\ k_src' = Append(k_src, Head(f))
                /\ k_fed' = Append(k_fed, Head(f))
                /\ k_pending' = Tail(f)
          /\ k_frames' = k_frames + 1
    /\ UNCHANGED <<k_mode, k_msgs, k_res, k_item, k_tail, k_enc>>
    /\ UNCHANGED not_kvars

\* encode(item, dst) on an empty write buffer; the bytes written, followed
\* by a tail, are what the reader's buffer then holds.
EncodeCall ==
    /\ k_mode = "trip"
    /\ k_enc.kind = "none"
    /\ \E item \in TripItems, tail \in TripTails :
          LET e == encode(item, <<>>)
          IN  /\ k_item' = item
              /\ k_tail' = tail
              /\ k_enc' = e
              /\ k_src' = IF e.kind = "ok" THEN e.dst \o tail ELSE k_src
              /\ k_fed' = IF e.kind = "ok" THEN e.dst \o tail ELSE k_fed
    /\ UNCHANGED <<k_mode, k_pending, k_frames, k_msgs, k_res>>
    /\ UNCHANGED not_kvars

\* decode(src), called by Framed on the bytes buffered so far.
DecodeCall ==
    /\ k_mode \in {"stream", "trip"}
    /\ k_mode = "trip" => k_enc.kind = "ok"
    /\ k_res.kind # "err"
    /\ LET r == decode(k_src)
       IN  /\ k_src' = r.rest
           /\ k_msgs' = IF r.kind = "some"
                        THEN Append(k_msgs, Message(r.tag, r.payload))
                        ELSE k_msgs
           /\ k_res' = [kind |-> r.kind, tag |-> r.tag, payload |-> r.payload,
                        before |-> k_src, after |-> r.rest]
    /\ UNCHANGED <<k_mode, k_fed, k_pending, k_frames, k_item, k_tail, k_enc>>
    /\ UNCHANGED not_kvars

----------------------------------------------------------------------------
(* One BitField queried on its own (peer.rs 86-114).                       *)

\* The bytes of the payloads explored.
BitBytes == {0, 1, 85, 128, 170, 255}

BInit ==
    /\ b_payload \in UNION {[1..n -> BitBytes] : n \in 0..MaxBitFieldLen}
    /\ b_piece = -1
    /\ b_has = FALSE
    /\ b_calls = 0
    /\ b_first = <<>>
    /\ b_second = <<>>

BIdle ==
    /\ b_payload = <<>>
    /\ b_piece = -2
    /\ b_has = FALSE
    /\ b_calls = 0
    /\ b_first = <<>>
    /\ b_second = <<>>

\* bit_field.has_piece(piece), for pieces within and beyond the payload.
HasPieceCall ==
    /\ b_piece >= -1
    /\ \E piece \in 0..(8 * MaxBitFieldLen + 8) :
          /\ b_piece' = piece
          /\ b_has' = has_piece(b_payload, piece)
    /\ UNCHANGED <<b_payload, b_calls, b_first, b_second>>
    /\ UNCHANGED not_bvars

\* bit_field.pieces().collect(), a first and a second time.
PiecesCall ==
    /\ b_piece >= -1
    /\ b_calls < 2
    /\ b_calls' = b_calls + 1
    /\ IF b_calls = 0
       THEN b_first' = pieces(b_payload) /\ UNCHANGED b_second
       ELSE b_second' = pieces(b_payload) /\ UNCHANGED b_first
    /\ UNCHANGED <<b_payload, b_piece, b_has>>
    /\ UNCHANGED not_bvars

----------------------------------------------------------------------------
(* The block requests of one piece: the piece length, blocks_num and the   *)
(* Request of every block, as download_all with Peer::download ("lib") and *)
(* as the DownloadPiece command ("cli") compute them.                      *)

\* A Request's begin and length fields (u32 on the wire).
BlockReq(begin, len) == [begin |-> begin % U32, length |-> len % U32]

\* A torrent whose piece length and total length fit a u32, and one of its
\* pieces.
GInit ==
    /\ g_mode \in {"lib", "cli"}
    /\ g_checks \in BOOLEAN
    /\ g_piece_length \in 1..(U32 - 1)
    /\ g_length \in 1..(U32 - 1)
    /\ g_piece \in 0..(((g_length + g_piece_length - 1) \div g_piece_length) - 1)
    /\ g_size = 0
    /\ g_num = 0
    /\ g_reqs = <<>>
    /\ g_st = "start"

GIdle ==
    /\ g_mode = "lib"
    /\ g_checks = FALSE
    /\ g_piece_length = 1
    /\ g_length = 1
    /\ g_piece = 0
    /\ g_size = 0
    /\ g_num = 0
    /\ g_reqs = <<>>
    /\ g_st = "idle"

\* t.info.pieces.0.len() of that torrent
GNumPieces == (g_length + g_piece_length - 1) \div g_piece_length

\* The length of the piece and blocks_num (download.rs 42 and 54, main.rs
\* 288-295).
BlocksNumStep ==
    /\ g_st = "start"
    /\ IF g_mode = "cli"
       THEN LET size == CliPieceSize(g_length, g_piece_length, g_piece, GNumPieces)
            IN  /\ g_size' = size
                /\ g_num' = CliBlocksNumOf(size)
                /\ g_st' = "blocks"
       ELSE LET size == PieceLenOf(g_length, g_piece_length, g_piece, GNumPieces)
                num  == BlocksNumU32(size)
            IN  /\ g_size' = size
                /\ IF num.overflow /\ g_checks
                   THEN g_num' = 0 /\ g_st' = "panicked"
                   ELSE g_num' = num.n /\ g_st' = "blocks"
    /\ UNCHANGED <<g_mode, g_checks, g_length, g_piece_length, g_piece, g_reqs>>
    /\ UNCHANGED not_gvars

\* The Request of the next block (peer.rs 65 with the block size of
\* participate, main.rs 297-308), or the end of the blocks.
BlockRequest ==
    /\ g_st = "blocks"
    /\ LET block == Len(g_reqs)
       IN  IF block >= g_num
           THEN g_st' = "done" /\ UNCHANGED g_reqs
           ELSE /\ g_reqs' = Append(g_reqs,
                     IF g_mode = "cli"
                     THEN BlockReq(block * BLOCK_MAX_SIZE, CliBlockSizeOf(g_size, block))
                     ELSE BlockReq(block * BLOCK_MAX_SIZE, BlockSizeOf(g_size, block, g_num)))
                /\ UNCHANGED g_st
    /\ UNCHANGED <<g_mode, g_checks, g_length, g_piece_length, g_piece, g_size, g_num>>
    /\ UNCHANGED not_gvars

----------------------------------------------------------------------------
(* download_all: building the peer list *)

\* What Peer::new returns for an address: Ok(peer), or the error of the step
\* that failed (connect; write or read of the handshake; the first message
\* missing, undecodable or not a BitField).
Outcomes == {"ok", "connect", "handshake", "first_message"}

\* The indices of peer_info.peers.
Addrs == DOMAIN a_result

\* Lines 17-27: the tracker has answered with a list of addresses.
AInit ==
    /\ \E n \in 0..MaxAddrs : a_result \in [0..(n - 1) -> Outcomes]
    /\ a_next = 0
    /\ a_flight = {}
    /\ a_attempts = [a \in Addrs |-> 0]
    /\ peer_list = <<>>
    /\ a_failed = <<>>
    /\ a_st = "connecting"

\* No peer list is being built.
AIdle ==
    /\ a_result = <<>>
    /\ a_next = 0
    /\ a_flight = {}
    /\ a_attempts = <<>>
    /\ peer_list = <<>>
    /\ a_failed = <<>>
    /\ a_st = "idle"

\* Lines 22-27: buffer_unordered takes the next address from the iterator
\* and starts its Peer::new while fewer than the limit are in flight.
StartConnect ==
    /\ a_st = "connecting"
    /\ a_next \in Addrs
    /\ Cardinality(a_flight) < BufferUnordered
    /\ a_flight' = a_flight \cup {a_next}
    /\ a_attempts' = [a_attempts EXCEPT ![a_next] = @ + 1]
    /\ a_next' = a_next + 1
    /\ UNCHANGED <<a_result, peer_list, a_failed, a_st>>
    /\ UNCHANGED not_avars

\* ConnectDone with an error of Peer::new returned from download_all.
ConnectDoneAbort(a) ==
    /\ a_st = "connecting"
    /\ a \in a_flight
    /\ a_flight' = a_flight \ {a}
    /\ IF a_result[a] = "ok"
       THEN /\ peer_list' = Append(peer_list, a)
            /\ UNCHANGED <<a_failed, a_st>>
       ELSE /\ a_st' = "failed"
            /\ UNCHANGED <<peer_list, a_failed>>
    /\ UNCHANGED <<a_result, a_next, a_attempts>>
    /\ UNCHANGED not_avars

\* Lines 28-33: one Peer::new finishes, in any order among those in flight;
\* the peer is pushed, or the failure is printed and the loop goes on.
ConnectDone(a) ==
    /\ a_st = "connecting"
    /\ a \in a_flight
    /\ a_flight' = a_flight \ {a}
    /\ IF a_result[a] = "ok"
       THEN /\ peer_list' = Append(peer_list, a)
            /\ UNCHANGED a_failed
       ELSE /\ a_failed' = Append(a_failed, a)
            /\ UNCHANGED peer_list
    /\ UNCHANGED <<a_result, a_next, a_attempts, a_st>>
    /\ UNCHANGED not_avars

\* Lines 28, 34-36: the stream is exhausted and peers = peer_list.
PeersBuilt ==
    /\ a_st = "connecting"
    /\ a_next \notin Addrs
    /\ a_flight = {}
    /\ a_st' = "built"
    /\ UNCHANGED <<a_result, a_next, a_flight, a_attempts, peer_list, a_failed>>
    /\ UNCHANGED not_avars

----------------------------------------------------------------------------
(* Specifications *)

Init == DInit /\ IIdle /\ CIdle /\ HIdle /\ KIdle /\ BIdle /\ GIdle /\ AIdle

Next ==
    \/ BuildPieces
    \/ PopPiece
    \/ ReturnDownloaded
    \/ \E p \in Peers : ParticipatePull(p)
    \/ \E p \in Peers : ParticipateRequest(p)
    \/ CollectRecv
    \/ FinishPiece

\* download_all on a torrent and a list of connected peers.
Spec == Init /\ [][Next]_vars

InitPool == PoolInit /\ IIdle /\ CIdle /\ HIdle /\ KIdle /\ BIdle /\ GIdle /\ AIdle

\* download_all on a torrent of one-byte pieces with a larger peer list.
SpecPool == InitPool /\ [][Next]_vars

NextLive == Next \/ \E p \in Peers : AwaitSilent(p)

\* The scheduling of download_all: the runtime polls every participate
\* future and the collection loop that can make a step, and an answer or a
\* failure of the connection that is on its way arrives.
Fairness ==
    /\ \A p \in 0..(NumPeers - 1) :
          WF_vars(ParticipatePull(p)) /\ WF_vars(ParticipateRequest(p))
    /\ WF_vars(PopPiece)
    /\ WF_vars(CollectRecv)
    /\ WF_vars(FinishPiece)

\* download_all with remotes that may stay silent, under fair scheduling.
SpecLive == Init /\ [][NextLive]_vars /\ Fairness

InitIter == DIdle /\ IInit /\ CIdle /\ HIdle /\ KIdle /\ BIdle /\ GIdle /\ AIdle

NextIter == IterNext \/ IterEnd

\* The iteration of a Downloaded.
SpecIter == InitIter /\ [][NextIter]_vars

InitPeer == DIdle /\ IIdle /\ CInit /\ HIdle /\ KIdle /\ BIdle /\ GIdle /\ AIdle

NextPeer ==
    \/ Connect
    \/ WriteHandshake
    \/ ReadHandshake
    \/ ReadBitField
    \/ DownloadCall
    \/ CliInterested
    \/ CliUnChoke
    \/ CliRequest

\* One connection, driven by Peer::new and Peer::download or by DownloadPiece.
SpecPeer == InitPeer /\ [][NextPeer]_vars

InitHeap == DIdle /\ IIdle /\ CIdle /\ HInit /\ KIdle /\ BIdle /\ GIdle /\ AIdle

NextHeap == HeapPush \/ HeapPop

\* The order in which the scheduler pops the pieces.
SpecHeap == InitHeap /\ [][NextHeap]_vars

InitCodec == DIdle /\ IIdle /\ CIdle /\ HIdle /\ KInit /\ BIdle /\ GIdle /\ AIdle

NextCodec == Feed \/ EncodeCall \/ DecodeCall

\* The codec on a stream of frames, and on the frames it encodes itself.
SpecCodec == InitCodec /\ [][NextCodec]_vars

InitBits == DIdle /\ IIdle /\ CIdle /\ HIdle /\ KIdle /\ BInit /\ GIdle /\ AIdle

NextBits == HasPieceCall \/ PiecesCall

\* The queries on one BitField.
SpecBits == InitBits /\ [][NextBits]_vars

InitBlocks == DIdle /\ IIdle /\ CIdle /\ HIdle /\ KIdle /\ BIdle /\ GInit /\ AIdle

NextBlocks == BlocksNumStep \/ BlockRequest

\* The block requests generated for one piece.
SpecBlocks == InitBlocks /\ [][NextBlocks]_vars

InitConnect == DIdle /\ IIdle /\ CIdle /\ HIdle /\ KIdle /\ BIdle /\ GIdle /\ AInit

NextConnect ==
    \/ StartConnect
    \/ \E a \in Addrs : ConnectDone(a)
    \/ PeersBuilt

\* The connections download_all makes to the addresses of the tracker.
SpecConnect == InitConnect /\ [][NextConnect]_vars

----------------------------------------------------------------------------
(* Properties *)

AllPieces == 0..(NumPieces - 1)

\* The bytes of the final buffer at piece i's place.
PieceRange(i) == SubSeq(all_pieces, i * piece_length + 1, i * piece_length + PieceLen(i))

\* buf with src written at [off, off + Len(src)) and nothing else changed.
Splice(buf, off, src) ==
    SubSeq(buf, 1, off) \o src \o SubSeq(buf, off + Len(src) + 1, Len(buf))

\* The final buffer exists once BuildPieces has allocated it.
Allocated == pc \in {"pop", "collect", "done", "failed"} \/ (pc = "panicked" /\ err.kind # "no_peers")

\* C1: a piece's bytes are in the final buffer only if the digest of the
\* reassembled piece buffer equals the piece's expected hash: every piece's
\* place in the final buffer is untouched or holds bytes of that digest, the
\* run goes on past a piece only with a matching digest, and a mismatch stops
\* the run with the piece's place untouched.
C1_HashGate ==
    /\ Allocated =>
         \A i \in AllPieces :
            \/ PieceRange(i) = Zeros(PieceLen(i))
            \/ Sha1(PieceRange(i)) = PieceHash(i)
    /\ (pc \in {"pop", "done"} /\ cur >= 0) =>
         /\ Sha1(all_blocks) = PieceHash(cur)
         /\ PieceRange(cur) = all_blocks
    /\ err.kind = "hash" =>
         /\ pc = "panicked"
         /\ Sha1(all_blocks) # PieceHash(cur)
         /\ PieceRange(cur) = Zeros(PieceLen(cur))

\* A piece has been requested, reassembled, verified and written to its
\* place in the final buffer.
C1_Witness ==
    /\ pc = "pop"
    /\ cur >= 0
    /\ requests >= 1
    /\ Sha1(all_blocks) = PieceHash(cur)
    /\ PieceRange(cur) = PieceContent(cur)

\* The 2-piece example: piece length one full block, a shorter last piece,
\* two peers that hold both pieces and answer every request correctly.
TwoPieceExample ==
    /\ piece_length = BLOCK_MAX_SIZE
    /\ length = BLOCK_MAX_SIZE + 1
    /\ honest = Peers
    /\ \A p \in Peers : has_piece(bit_field[p], 0) /\ has_piece(bit_field[p], 1)

\* C2: a returned Downloaded holds every piece, verified, at its place, and
\* the 2-piece example served by two good peers does not fail.
C2_Claim ==
    /\ pc = "done" => \A i \in AllPieces : Sha1(PieceRange(i)) = PieceHash(i)
    /\ TwoPieceExample => pc \notin {"failed", "panicked"}

\* FinishPiece is the only step that can leave the collection loop here.
CollectionOver == pc = "collect" /\ done = <<>> /\ AllFinished

\* C3: for every verified piece index i, the step that ends the piece writes
\* the piece buffer at [i * piece_length, i * piece_length + piece length),
\* leaves every other byte of the final buffer unchanged, and the run goes on.
C3_Claim ==
    [][(/\ CollectionOver
        /\ pc' # "collect"
        /\ bytes_received = PieceLen(cur)
        /\ Sha1(all_blocks) = PieceHash(cur))
       => (/\ pc' = "pop"
           /\ all_pieces' = Splice(all_pieces, cur * piece_length, all_blocks))]_vars

\* C4: every block taken from the result channel is written into the piece
\* buffer at [begin, begin + block length), whatever the number of blocks of
\* the piece and whatever the order of arrival, and the collection goes on.
C4_Claim ==
    [][(pc = "collect" /\ done # <<>> /\ done' = Tail(done))
       => (/\ pc' = "collect"
           /\ all_blocks' = Splice(all_blocks, Head(done).begin, Head(done).block))]_vars

\* The sum of the lengths of the first k files.
FileOffset(k) == Sum(SubSeq(files, 1, k))

\* C5: one item is yielded per file, in file-list order, and the k-th item
\* is the slice of the buffer that starts at the sum of the lengths of the
\* files before it (the running offset) and has the k-th file's length.
C5_Claim ==
    /\ Len(yielded) = file_iter
    /\ \A k \in 1..Len(yielded) :
          yielded[k] = SubSeq(bytes, FileOffset(k - 1) + 1, FileOffset(k))

\* C6: once the handshake reply carries another info hash than the local
\* one, no framed message is read or written and no connection results.
C6_Claim ==
    (\E k \in 1..Len(wire) :
        wire[k].dir = "in" /\ wire[k].tag = "Handshake" /\ wire[k].hash # info_hash)
    => /\ \A k \in 1..Len(wire) : wire[k].tag = "Handshake"
       /\ cpc \notin {"ready", "bitfield", "interested", "unchoked", "cli_done"}

\* C7: every Request written to a connection comes after an Interested
\* written to it and an UnChoke read from it after that Interested.
C7_Claim ==
    \A k \in 1..Len(wire) :
        (wire[k].dir = "out" /\ wire[k].tag = "Request") =>
            \E i \in 1..k, j \in 1..k :
                /\ i < j
                /\ wire[i].dir = "out" /\ wire[i].tag = "Interested"
                /\ wire[j].dir = "in" /\ wire[j].tag = "UnChoke"

\* C8: Peer::download returns bytes only for a Piece answer whose index is
\* the requested piece, whose begin is block * BLOCK_MAX_SIZE and whose block
\* has the requested length.
C8_Claim ==
    last.kind = "ok" =>
        /\ last.index = last.piece
        /\ last.begin = last.block * BLOCK_MAX_SIZE
        /\ last.len = last.size

\* The bytes of the piece buffer where block b belongs.
BlockRange(b) ==
    SubSeq(all_blocks, b * BLOCK_MAX_SIZE + 1, b * BLOCK_MAX_SIZE + BlockSize(cur, b))

\* The peers whose participation in the current piece ended on an answer
\* with the wrong begin offset.
WrongBeginPeers == {p \in Peers : part[p].st = "err" /\ part[p].why = "begin"}

BlockHeld(b) ==
    \/ \E k \in 1..Len(tasks) : tasks[k] = b
    \/ \E q \in Peers : part[q].st = "claimed" /\ part[q].block = b
    \/ \E k \in 1..Len(done) : done[k].begin = b * BLOCK_MAX_SIZE
    \/ BlockRange(b) # Zeros(BlockSize(cur, b))

C10_Starvation ==
    (pc # "idle" /\ \E i \in AllPieces : PiecePeers(i) = {}) =>
        /\ pc \in {"start", "panicked"}
        /\ requests = 0
        /\ all_pieces = <<>>
        /\ pc = "panicked" =>
              /\ err.kind = "no_peers"
              /\ \A i \in AllPieces : PiecePeers(i) = {} => i \in err.pieces

\* The run has failed on a piece without candidate peers while another piece
\* has one.
C10_Witness ==
    /\ pc = "panicked"
    /\ err.kind = "no_peers"
    /\ \E i \in AllPieces : PiecePeers(i) # {}

Called == k_res.kind # "init"

\* A buffer without the keep-alive frames it starts with.
RECURSIVE SkipKeepAlives(_)
SkipKeepAlives(b) ==
    IF Len(b) >= 4 /\ SubSeq(b, 1, 4) = <<0, 0, 0, 0>>
    THEN SkipKeepAlives(SubSeq(b, 5, Len(b)))
    ELSE b

\* What the last call of decode found behind the keep-alives.
Seen == SkipKeepAlives(k_res.before)

\* The length a buffer of at least 4 bytes declares.
Declared(b) == b[1] * 16777216 + b[2] * 65536 + b[3] * 256 + b[4]

\* The buffer holds a whole frame within the ceiling.
WholeFrame(b) == Len(b) >= 4 /\ Declared(b) <= MAX /\ Len(b) >= 4 + Declared(b)

\* The buffer holds the beginning of a frame within the ceiling, or less
\* than a length prefix.
PartFrame(b) == Len(b) < 4 \/ (Declared(b) <= MAX /\ Len(b) < 4 + Declared(b))

\* The messages decoded from a buffer supplied at once.
RECURSIVE DecodeAll(_)
DecodeAll(b) ==
    LET r == decode(b)
    IN  IF r.kind = "some"
        THEN <<Message(r.tag, r.payload)>> \o DecodeAll(r.rest)
        ELSE <<>>

\* C12 as stated: for every tag and every payload length from 0 up to the
\* frame ceiling, encode succeeds and decode on the produced bytes returns the
\* same tag and payload and removes exactly the frame.
C12_Claim ==
    (k_mode = "trip" /\ k_enc.kind # "none" /\ Len(k_item.payload) <= MAX) =>
      /\ k_enc.kind = "ok"
      /\ (Called /\ k_res.before = k_enc.dst \o k_tail) =>
            /\ k_res.kind = "some"
            /\ k_res.tag = k_item.tag
            /\ k_res.payload = k_item.payload
            /\ k_res.after = k_tail

\* C12 for payloads shorter than the ceiling (the tag byte counts towards
\* it): a message of any tag is encoded, and decode on the bytes encode
\* produced, with anything behind them, returns a message of the same tag and
\* payload and removes exactly the 4 + length bytes of the frame, leaving the
\* bytes behind it.
C12_RoundTrip ==
    k_mode = "trip" =>
      /\ (k_enc.kind # "none" /\ Len(k_item.payload) + 1 <= MAX) => k_enc.kind = "ok"
      /\ (k_enc.kind = "ok" /\ Called /\ k_res.before = k_enc.dst \o k_tail) =>
            /\ k_res.kind = "some"
            /\ k_res.tag = k_item.tag
            /\ k_res.payload = k_item.payload
            /\ k_res.after = k_tail
            /\ Len(k_res.before) - Len(k_res.after) = 4 + (1 + Len(k_item.payload))

\* The largest payload that fits, with a frame behind it, has made the trip.
C12_Witness ==
    /\ k_mode = "trip"
    /\ k_item.tag = "Cancel"
    /\ Len(k_item.payload) = MAX - 1
    /\ k_tail = <<0, 0, 0, 1, 7>>
    /\ k_res.before = k_enc.dst \o k_tail
    /\ k_res.kind = "some"

\* C13: decode returns an error for every declared length over the ceiling
\* as soon as the 4 length bytes are buffered, whatever follows them; encode
\* returns an error exactly when tag byte plus payload exceed the ceiling,
\* so the length of every frame it emits passes the decoder's check.
C13_Ceiling ==
    /\ (Called /\ Len(Seen) >= 4 /\ Declared(Seen) > MAX) =>
          k_res.kind = "err" /\ k_res.tag = "too_large"
    /\ k_enc.kind # "none" =>
          (k_enc.kind = "err" <=> Len(k_item.payload) + 1 > MAX)
    /\ k_enc.kind = "ok" =>
          /\ Declared(k_enc.dst) = Len(k_enc.dst) - 4
          /\ Declared(k_enc.dst) <= MAX
          /\ (k_res.before = k_enc.dst \o k_tail => k_res.kind # "err")

\* A length one over the ceiling is refused on its 4 bytes alone.
C13_Witness ==
    /\ k_res.kind = "err"
    /\ k_res.tag = "too_large"
    /\ Len(Seen) = 4
    /\ Declared(Seen) = MAX + 1

\* C14: while less than a length prefix, or less than the whole of a frame
\* within the ceiling, is buffered, decode returns Ok(None) and takes nothing
\* of that frame out of the buffer; and the messages decoded from a stream
\* that arrives byte by byte, with decode called at any moments, are those
\* decoded from the same bytes supplied at once.
C14_Incremental ==
    /\ (Called /\ PartFrame(Seen)) =>
          k_res.kind = "none" /\ k_res.after = Seen
    /\ k_mode = "stream" => k_msgs \o DecodeAll(k_src) = DecodeAll(k_fed)

\* After a first message, decode was called on 5 of the 6 bytes of the next
\* frame.
C14_Witness ==
    /\ k_mode = "stream"
    /\ Len(k_msgs) = 1
    /\ k_res.kind = "none"
    /\ k_res.before = <<0, 0, 0, 2, 0>>
    /\ k_src = k_res.before

\* C15: decode removes the 4 bytes of every keep-alive it meets and returns
\* no message for them: behind keep-alives, a whole frame is decoded in the
\* same call, and less than a whole frame gives Ok(None).
C15_KeepAlive ==
    (Called /\ k_res.before # Seen) =>
      /\ (WholeFrame(Seen) /\ Seen[5] \in 0..8) =>
            /\ k_res.kind = "some"
            /\ k_res.payload = SubSeq(Seen, 6, 4 + Declared(Seen))
            /\ k_res.after = SubSeq(Seen, 5 + Declared(Seen), Len(Seen))
      /\ PartFrame(Seen) =>
            /\ k_res.kind = "none"
            /\ k_res.after = Seen

\* Two keep-alives and a whole frame were buffered, and one call of decode
\* returned the frame's message.
C15_Witness ==
    /\ Called
    /\ Len(k_res.before) - Len(Seen) = 8
    /\ WholeFrame(Seen)
    /\ Declared(Seen) = MAX
    /\ k_res.kind = "some"

\* C16: a whole frame whose tag byte is none of 0..8 makes decode return an
\* error and no message; the tag bytes 0..8 give Choke, UnChoke, Interested,
\* NotInterested, Have, BitField, Request, Piece, Cancel, in this order.
C16_Tags ==
    (Called /\ WholeFrame(Seen)) =>
      IF Seen[5] \in 0..8
      THEN /\ k_res.kind = "some"
           /\ k_res.tag = <<"Choke", "UnChoke", "Interested", "NotInterested", "Have",
                            "BitField", "Request", "Piece", "Cancel">>[Seen[5] + 1]
      ELSE /\ k_res.kind = "err"
           /\ k_res.tag = "unknown_tag"

\* A whole frame with the tag byte 9 was refused.
C16_Witness ==
    /\ Called
    /\ WholeFrame(Seen)
    /\ Seen[5] = 9
    /\ k_res.kind = "err"
    /\ k_msgs # <<>>

\* The bits of a byte, most significant first.
BitsMsbFirst(byte) == [k \in 1..8 |-> (byte \div (2 ^ (8 - k))) % 2]

\* Bit i of a payload, counted from the most significant bit of byte 0.
BitSet(payload, i) ==
    /\ i < 8 * Len(payload)
    /\ BitsMsbFirst(payload[(i \div 8) + 1])[(i % 8) + 1] = 1

\* C17: has_piece(i) is true exactly when bit i of the payload, counted
\* MSB-first in each byte, is set, and false for every i at or beyond 8 times
\* the payload length, the empty payload included.
C17_HasPiece ==
    b_piece >= 0 =>
      /\ b_has = BitSet(b_payload, b_piece)
      /\ b_piece >= 8 * Len(b_payload) => b_has = FALSE
      /\ b_payload = <<170, 85>> =>
            b_has = (b_piece \in {0, 2, 4, 6, 9, 11, 13, 15})

\* The last bit of the second byte was asked for and found set.
C17_Witness ==
    /\ b_payload = <<170, 85>>
    /\ b_piece = 15
    /\ b_has = TRUE

\* C18: pieces() yields exactly the indices for which has_piece is true, in
\* strictly ascending order, and a second call on the same bit field yields
\* the same sequence.
C18_Pieces ==
    /\ b_calls >= 1 =>
          /\ \A a, b \in 1..Len(b_first) : a < b => b_first[a] < b_first[b]
          /\ {b_first[a] : a \in 1..Len(b_first)}
                = {i \in 0..(8 * Len(b_payload) + 8) : has_piece(b_payload, i)}
    /\ b_calls = 2 => b_second = b_first

\* Both calls were made on the payload of the source's test.
C18_Witness ==
    /\ b_payload = <<170, 85>>
    /\ b_calls = 2
    /\ b_first = <<0, 2, 4, 6, 9, 11, 13, 15>>
    /\ b_second = b_first

\* ceil(n / BLOCK_MAX_SIZE)
CeilBlocks(n) == (n \div BLOCK_MAX_SIZE) + (IF n % BLOCK_MAX_SIZE = 0 THEN 0 ELSE 1)

\* The sum of the lengths of the first k requests.
RECURSIVE Requested(_)
Requested(k) == IF k = 0 THEN 0 ELSE Requested(k - 1) + g_reqs[k].length

\* C19: for every piece length the block requests are ceil(piece length /
\* BLOCK_MAX_SIZE) in number, block k begins at k * BLOCK_MAX_SIZE, every
\* block but the last has BLOCK_MAX_SIZE bytes and the last the remainder (or
\* BLOCK_MAX_SIZE when it is zero), so that the blocks tile the piece; the
\* last piece has length total mod piece_length, or piece_length when zero.
C19_Claim ==
    g_st \in {"blocks", "done", "panicked"} =>
      /\ g_st # "panicked"
      /\ g_size = IF g_piece = GNumPieces - 1 /\ g_length % g_piece_length # 0
                  THEN g_length % g_piece_length
                  ELSE g_piece_length
      /\ g_num = CeilBlocks(g_size)
      /\ \A k \in 1..Len(g_reqs) :
            /\ g_reqs[k].begin = (k - 1) * BLOCK_MAX_SIZE
            /\ g_reqs[k].begin = Requested(k - 1)
            /\ g_reqs[k].length =
                  IF k < CeilBlocks(g_size) \/ g_size % BLOCK_MAX_SIZE = 0
                  THEN BLOCK_MAX_SIZE
                  ELSE g_size % BLOCK_MAX_SIZE
      /\ g_st = "done" =>
            /\ Len(g_reqs) = CeilBlocks(g_size)
            /\ Requested(Len(g_reqs)) = g_size

\* Peer::new has returned Ok(Peer).
PeerExists == mode = "peer" /\ cpc \in {"ready", "panicked"}

\* C20: when the first framed message after the handshake is not a BitField,
\* or the stream ends (or fails to decode) before a message arrives,
\* Peer::new returns an error and there is no Peer; a Peer exists only after
\* a BitField message was read as the first message.
C20_FirstMessage ==
    mode = "peer" =>
      /\ first_tag # "BitField" =>
            /\ ~PeerExists
            /\ cpc \in {"connect", "connected", "hs_written", "hs_read", "error"}
            /\ last = NoCall
      /\ PeerExists =>
            /\ Len(wire) >= 3
            /\ wire[3] = Msg("in", "BitField", 0)

\* A message with another tag was read first, and Peer::new returned an error.
C20_Witness ==
    /\ mode = "peer"
    /\ first_tag = "UnChoke"
    /\ wire = <<Msg("out", "Handshake", 1), Msg("in", "Handshake", 1),
                Msg("in", "UnChoke", 0)>>
    /\ cpc = "error"

\* C21: a peer whose participate future ended with an error for the piece
\* just processed is not launched as a participant for the piece popped
\* next.
C21_Claim ==
    [][\A p \in Peers :
         (cur' # cur /\ cur # -1 /\ part[p].st = "err") => part'[p].st = "off"]_vars

\* C22: an answer to a Request that is not a Piece message ends only that
\* peer's participation with an error; download_all is never aborted by it
\* while another candidate peer is still participating.
C22_Claim ==
    ~(/\ pc = "panicked"
      /\ err.kind = "not_piece"
      /\ \E q \in Peers : part[q].st = "run")

\* The block indices of the piece being fetched.
Blocks == IF cur = -1 THEN {} ELSE 0..(BlocksNum(cur) - 1)

\* Every block of the piece being fetched has been sent on the result
\* channel.
AllDelivered == cur # -1 /\ \A b \in Blocks : delivered[b] >= 1

\* The failure half of C23: the run fails with "some blocks are missing"
\* only when every participate future has finished, the result channel is
\* drained and some block was never delivered; the error names the piece,
\* whose place in the final buffer is untouched, and nothing can follow.
C23_Failure ==
    pc = "failed" =>
        /\ err = [kind |-> "missing", pieces |-> {cur}]
        /\ AllFinished /\ done = <<>>
        /\ \E b \in Blocks : delivered[b] = 0
        /\ bytes_received # PieceLen(cur)
        /\ PieceRange(cur) = Zeros(PieceLen(cur))
        /\ ~ENABLED Next

\* C23: once every block of the piece has arrived the collection ends in
\* success (it neither fails nor stops the run while collecting), and it
\* ends in failure, as described by C23_Failure, when the tasks finish with
\* a block missing.
C23_Claim ==
    /\ AllDelivered => /\ pc # "failed"
                       /\ ~(pc = "panicked" /\ err.kind = "copy_block")
    /\ C23_Failure

\* The elements of a sequence.
Range(q) == {q[k] : k \in DOMAIN q}

\* The addresses whose Peer::new succeeds.
Succeeding == {a \in Addrs : a_result[a] = "ok"}

\* C24: a failing Peer::new does not end the run; no address is attempted
\* twice; when the peer list is taken every address has been attempted
\* exactly once and the list holds exactly the peers whose Peer::new
\* succeeded, each once, the others having been reported.
C24_PeerList ==
    /\ a_st # "failed"
    /\ \A a \in Addrs : a_attempts[a] <= 1
    /\ Range(peer_list) \subseteq Succeeding
    /\ a_st = "built" =>
          /\ \A a \in Addrs : a_attempts[a] = 1
          /\ Range(peer_list) = Succeeding
          /\ Len(peer_list) = Cardinality(Succeeding)
          /\ Range(a_failed) = Addrs \ Succeeding

\* The peer list is taken after the first address failed and a later one
\* succeeded.
C24_Witness ==
    /\ a_st = "built"
    /\ \E a, b \in Addrs :
          /\ a < b
          /\ a_result[a] # "ok"
          /\ a_result[b] = "ok"
          /\ b \in Range(peer_list)

\* The number of times block index b waits in the work queue.
Queued(b) == Cardinality({k \in DOMAIN tasks : tasks[k] = b})

\* The participate futures that hold a claim on block index b.
Claimers(b) ==
    {p \in Peers : part[p].st \in {"claimed", "waiting"} /\ part[p].block = b}

\* No participate future has taken anything from the work queue yet.
JustLaunched ==
    /\ pc = "collect"
    /\ \A p \in Peers : part[p].st \in {"off", "run"}
    /\ \A b \in Blocks : delivered[b] = 0

\* C25: every block index of the piece being fetched is in exactly one
\* place: once in the work queue, claimed by one participate future, or
\* delivered once; nothing else is queued or claimed; and the queue starts
\* with the indices 0..block_count, each once.
C25_OnePlace ==
    /\ \A b \in Blocks : Queued(b) + Cardinality(Claimers(b)) + delivered[b] = 1
    /\ cur # -1 =>
          /\ Range(tasks) \subseteq Blocks
          /\ \A p \in Peers : part[p].st = "claimed" => part[p].block \in Blocks
    /\ JustLaunched => tasks = [k \in 1..BlocksNum(cur) |-> k - 1]

\* One block of the piece has been delivered while another is back in the
\* queue after the error of the participate future that had claimed it.
C25_Witness ==
    /\ pc = "collect"
    /\ \E b, c \in Blocks :
          /\ b # c
          /\ delivered[b] = 1
          /\ Queued(c) = 1
          /\ \E p \in Peers : part[p].st = "err" /\ part[p].block = c

\* The number of Piece messages sent on the result channel for the first n
\* block indices of the piece being fetched.
RECURSIVE Sent(_)
Sent(n) == IF n = 0 THEN 0 ELSE delivered[n - 1] + Sent(n - 1)

\* The number of messages for block index b waiting on the result channel.
Waiting(b) ==
    Cardinality({k \in DOMAIN done : done[k].begin = b * BLOCK_MAX_SIZE})

\* The bytes of the messages taken from the result channel, for the first n
\* block indices.
RECURSIVE Taken(_)
Taken(n) ==
    IF n = 0 THEN 0
    ELSE (delivered[n - 1] - Waiting(n - 1)) * BlockSize(cur, n - 1) + Taken(n - 1)

\* The collection loop has ended with bytes_received equal to the piece
\* length: the piece goes on to the hash check, or has gone through it.
CountedWhole ==
    \/ CollectionOver /\ bytes_received = PieceLen(cur)
    \/ pc \in {"pop", "done"} /\ cur # -1
    \/ pc = "panicked" /\ err.kind \in {"hash", "copy_piece"}

\* C28: no block index is delivered twice and no more than block_count
\* results are ever sent on the result channel; while collecting,
\* bytes_received is the size of the blocks received; so when the loop ends
\* with bytes_received equal to the piece length every block index was
\* delivered exactly once.
C28_ByteCount ==
    /\ \A b \in Blocks : delivered[b] <= 1
    /\ cur # -1 => Sent(BlocksNum(cur)) <= BlocksNum(cur)
    /\ pc = "collect" => bytes_received = Taken(BlocksNum(cur))
    /\ CountedWhole => \A b \in Blocks : delivered[b] = 1

\* The loop ends with bytes_received equal to the piece length after one
\* participate future failed on the block and another delivered it.
C28_Witness ==
    /\ CollectionOver
    /\ bytes_received = PieceLen(cur)
    /\ \E p \in Peers : part[p].st = "err" /\ part[p].block \in Blocks
    /\ Sent(BlocksNum(cur)) = BlocksNum(cur)

\* The pieces popped from the heap before the one being processed.
Earlier == IF pc \in {"start", "idle"} \/ err.kind = "no_peers"
           THEN {}
           ELSE AllPieces \ (need_pieces \cup {cur})

Silent == \E p \in Peers : part[p].st = "waiting"

\* C26: under fair scheduling the collection loop of every piece is
\* eventually left: every participate future ends, the result channel is
\* closed and drained, and download_all goes on or fails.
C26_Claim == (pc = "collect") ~> (pc # "collect")

\* The same with remotes that answer or fail: the loop is left as long as no
\* participate future waits on a silent remote.
C26_Responsive == (pc = "collect") ~> (pc # "collect" \/ Silent)

====
